---- MODULE Spec2Model ----
(***************************************************************************)
(* Rules engine of the Ludo game in src/script.js: the game state, the     *)
(* track topology (createLudoGridPath), the piece functions (canTokenMove, *)
(* applyMove, getBoardCoordForPosition) and the turn flow (the roll button *)
(* handler, the board click handler, postMoveAdvance, nextTurn).           *)
(***************************************************************************)
EXTENDS Integers, Sequences, FiniteSets, TLC

VARIABLES
  started,           \* gameState !== null
  numPlayers,        \* gameState.numPlayers
  tokens,            \* gameState.players[p].tokens[t] : [position, finished]
  currentPlayerIdx,  \* gameState.currentPlayerIdx
  dice,              \* gameState.dice (NoDice for null)
  awaitingMove,      \* gameState.awaitingMove
  gameOver,          \* gameState.gameOver
  moves,             \* number of token moves made since the match was created
  last               \* the last intent handled and what it did

vars == <<started, numPlayers, tokens, currentPlayerIdx, dice, awaitingMove,
          gameOver, moves, last>>

----------------------------------------------------------------------------
(* Bounds of the model *)

\* token moves explored per match, every face of the dice being rolled
MaxMoves == 5

\* token moves explored per match when only the faces DeepFaces are rolled
MaxDeepMoves == 7

\* the faces rolled in the deeper exploration
DeepFaces == {1, 3, 6}

----------------------------------------------------------------------------
(* Constants of the program *)

ringLen == 52
NumTokens == 4
AtBase == -1
NoDice == 0
Dice == 1..6
PlayerCounts == 2..4
TokenIds == 0..(NumTokens - 1)
NoCoord == <<>>

----------------------------------------------------------------------------
(* Track topology: createLudoGridPath *)

Sign(v) == IF v > 0 THEN 1 ELSE IF v < 0 THEN -1 ELSE 0

RECURSIVE pushLine(_, _, _, _)
\* the cells from (x0,y0) to (x1,y1), both ends included
pushLine(x0, y0, x1, y1) ==
  IF x0 = x1 /\ y0 = y1 THEN << <<x0, y0>> >>
  ELSE << <<x0, y0>> >> \o pushLine(x0 + Sign(x1 - x0), y0 + Sign(y1 - y0), x1, y1)

ringRaw ==
  pushLine(6, 1, 8, 1) \o pushLine(8, 1, 8, 6) \o pushLine(8, 6, 13, 6) \o
  pushLine(13, 6, 13, 8) \o pushLine(13, 8, 8, 8) \o pushLine(8, 8, 8, 13) \o
  pushLine(8, 13, 6, 13) \o pushLine(6, 13, 6, 8) \o pushLine(6, 8, 1, 8) \o
  pushLine(1, 8, 1, 6) \o pushLine(1, 6, 6, 6) \o pushLine(6, 6, 6, 1)

RECURSIVE dedupFrom(_, _, _)
\* keeps the first occurrence of every cell of s, in order
dedupFrom(s, i, acc) ==
  IF i > Len(s) THEN acc
  ELSE IF \E j \in 1..Len(acc) : acc[j] = s[i]
       THEN dedupFrom(s, i + 1, acc)
       ELSE dedupFrom(s, i + 1, Append(acc, s[i]))

dedup == dedupFrom(ringRaw, 1, <<>>)

\* walks around dedup again and again until 52 cells are listed
full == [i \in 1..ringLen |-> dedup[((i - 1) % Len(dedup)) + 1]]

\* GRID.ring[idx], idx in 0..51
ring(idx) == full[idx + 1]

homeStretches ==
  (0 :> << <<6, 2>>, <<6, 3>>, <<6, 4>>, <<6, 5>>, <<6, 6>> >>) @@
  (1 :> << <<12, 6>>, <<11, 6>>, <<10, 6>>, <<9, 6>>, <<8, 6>> >>) @@
  (2 :> << <<8, 12>>, <<8, 11>>, <<8, 10>>, <<8, 9>>, <<8, 8>> >>) @@
  (3 :> << <<2, 8>>, <<3, 8>>, <<4, 8>>, <<5, 8>>, <<6, 8>> >>)

center == <<7, 7>>

startIdx == (0 :> 0) @@ (1 :> 13) @@ (2 :> 26) @@ (3 :> 39)

entryIdx == (0 :> 10) @@ (1 :> 23) @@ (2 :> 36) @@ (3 :> 49)

\* stepsToEntry as a full lap of the ring, whatever the entry tile
stepsToEntry_fullLap(playerId) == ringLen - 1

stepsToEntry(playerId) == (entryIdx[playerId] - startIdx[playerId] + ringLen) % ringLen

----------------------------------------------------------------------------
(* Piece functions *)

\* homeIdx of a path position: 0-based into the home stretch, 5 is the center
homeIdxOf(playerId, position) == position - stepsToEntry(playerId) - 1

getBoardCoordForPosition(playerId, position) ==
  IF position < 0 THEN NoCoord
  ELSE IF position <= stepsToEntry(playerId)
       THEN ring((startIdx[playerId] + position) % ringLen)
       ELSE IF homeIdxOf(playerId, position) >= 0 /\ homeIdxOf(playerId, position) < 5
            THEN homeStretches[playerId][homeIdxOf(playerId, position) + 1]
            ELSE IF homeIdxOf(playerId, position) = 5 THEN center ELSE NoCoord

canTokenMove(playerId, token, d) ==
  IF token.finished THEN FALSE
  ELSE IF token.position = AtBase THEN d = 6
       ELSE token.position + d <= stepsToEntry(playerId) + 5

\* newPosition without the special case of a token leaving the base
newPosition_noBaseCase(position, d) == position + d

\* applyMove, lines 211-215: the mover's new path position
newPosition(position, d) == IF position = AtBase THEN 0 ELSE position + d

\* applyMove, lines 216-224: the mover after the step and the finish check
movedToken(playerId, token, d) ==
  [position |-> newPosition(token.position, d),
   finished |-> token.finished \/ homeIdxOf(playerId, newPosition(token.position, d)) = 5]

\* applyMove, lines 229-234: whether token ot of player other is sent back when the
\* mover of player playerId has landed on posCoord
isCaptured(playerId, posCoord, other, ot) ==
  /\ other # playerId
  /\ ~(ot.position < 0 \/ ot.finished)
  /\ getBoardCoordForPosition(other, ot.position) # NoCoord
  /\ getBoardCoordForPosition(other, ot.position) = posCoord

\* applyMove with the capture loop left after the first token sent back
applyMove_firstCaptureOnly(toks, playerId, tid, d) ==
  LET mv == movedToken(playerId, toks[playerId][tid], d)
      posCoord == getBoardCoordForPosition(playerId, mv.position)
      onHomeStretch == mv.position > stepsToEntry(playerId)
      hit == {pt \in (DOMAIN toks) \X TokenIds :
                ~onHomeStretch /\ posCoord # NoCoord
                /\ isCaptured(playerId, posCoord, pt[1], toks[pt[1]][pt[2]])}
      first == IF hit = {} THEN <<>>
               ELSE CHOOSE pt \in hit : \A qu \in hit :
                      pt[1] < qu[1] \/ (pt[1] = qu[1] /\ pt[2] <= qu[2])
  IN [p \in DOMAIN toks |->
       [t \in TokenIds |->
          IF p = playerId /\ t = tid THEN mv
          ELSE IF <<p, t>> = first
               THEN [toks[p][t] EXCEPT !.position = AtBase]
               ELSE toks[p][t]]]

\* applyMove: the tokens of all players after player playerId moves token tid by d
applyMove(toks, playerId, tid, d) ==
  LET mv == movedToken(playerId, toks[playerId][tid], d)
      posCoord == getBoardCoordForPosition(playerId, mv.position)
      onHomeStretch == mv.position > stepsToEntry(playerId)
  IN [p \in DOMAIN toks |->
       [t \in TokenIds |->
          IF p = playerId /\ t = tid THEN mv
          ELSE IF ~onHomeStretch /\ posCoord # NoCoord
                  /\ isCaptured(playerId, posCoord, p, toks[p][t])
               THEN [toks[p][t] EXCEPT !.position = AtBase]
               ELSE toks[p][t]]]

\* allTokensFinished testing the position where the finished flag is meant
allTokensFinished_onBoard(playerTokens) == \A t \in TokenIds : playerTokens[t].position >= 0

allTokensFinished(playerTokens) == \A t \in TokenIds : playerTokens[t].finished

\* createGame: the tokens of a new match
createGame(n) ==
  [p \in 0..(n - 1) |-> [t \in TokenIds |-> [position |-> AtBase, finished |-> FALSE]]]

\* movables of the roll handler, as token ids
movables(toks, playerId, d) ==
  {t \in TokenIds : canTokenMove(playerId, toks[playerId][t], d)}

\* movables[0]: the first movable token
firstOf(S) == CHOOSE t \in S : \A u \in S : t <= u

\* the click handler's hit test: the first token of the current player drawn at the
\* spot of token tid (base tokens have separate yard spots)
clickedToken(toks, playerId, tid) ==
  IF toks[playerId][tid].position < 0 THEN tid
  ELSE firstOf({t \in TokenIds :
         getBoardCoordForPosition(playerId, toks[playerId][t].position)
           = getBoardCoordForPosition(playerId, toks[playerId][tid].position)})

----------------------------------------------------------------------------
(* The piece states of the specification, read off a token *)

IsAtBase(token) == ~token.finished /\ token.position = AtBase

\* on the shared ring: path positions 0..stepsToEntry
IsOnTrack(playerId, token) ==
  ~token.finished /\ token.position >= 0 /\ token.position <= stepsToEntry(playerId)

\* the ring index of a path position on the ring
ringIndexOf(playerId, position) == (startIdx[playerId] + position) % ringLen

\* in the home stretch, on one of its 5 cells
IsInHomeLane(playerId, token) ==
  /\ ~token.finished /\ token.position > stepsToEntry(playerId)
  /\ homeIdxOf(playerId, token.position) \in 0..4

\* drawn on the board at coord, neither in the yard nor finished
IsOnTile(playerId, token, coord) ==
  /\ token.position >= 0 /\ ~token.finished
  /\ getBoardCoordForPosition(playerId, token.position) = coord

----------------------------------------------------------------------------
(* Turn flow *)

\* extraTurn granted on the lowest face
extraTurn_onOne(d) == d = 1

\* postMoveAdvance, line 505
extraTurn(d) == d = 6

\* nextTurn leaving the turn with the same player
nextPlayerIdx_stay(idx, n) == idx

\* nextTurn without the wrap to the first player
nextPlayerIdx_noWrap(idx, n) == idx + 1

\* nextTurn: the index of the player who rolls next
nextPlayerIdx(idx, n) == (idx + 1) % n

\* the dice after nextTurn, kept as it was rolled
nextTurnDice_kept(d) == d

\* nextTurn, line 516: the dice after the turn has passed
nextTurnDice(d) == NoDice

\* the roll handler moving the first movable token when up to two are movable
autoMove_upToTwo(mvs) == Cardinality(mvs) <= 2

\* the roll handler never moving a token by itself
autoMove_never(mvs) == FALSE

\* rollBtn click handler, line 434: the only movable token is moved at once
autoMove(mvs) == Cardinality(mvs) = 1

\* the click handler moving whatever token was hit
selectable_any(toks, playerId, t, d) == TRUE

\* boardCanvas click handler, line 464: the token hit is moved if it can move
selectable(toks, playerId, t, d) == canTokenMove(playerId, toks[playerId][t], d)

\* last.op is "none", "start", "skip" (a roll nobody could play), "await" (a roll
\* that waits for a click), "auto" (a roll that moved the only movable token),
\* "click" (a click that moved a token), "rollRejected" (a roll the handler
\* returned from at once), "clickRejected" (a click on a token that cannot move,
\* named by token) or "clickIgnored" (a click that tested no token); player,
\* dice, token, from and captured describe the move made, if one was
NoLast == [op |-> "none", player |-> 0, dice |-> NoDice, token |-> 0,
           from |-> AtBase, captured |-> 0]

MoveOps == {"auto", "click"}

\* the number of tokens sent back to base between toks and after
capturedCount(toks, after) ==
  Cardinality({pt \in (DOMAIN toks) \X TokenIds :
     toks[pt[1]][pt[2]].position >= 0 /\ after[pt[1]][pt[2]].position = AtBase})

\* postMoveAdvance, with the tokens as they are after the move
postMoveAdvance(after, d) ==
  IF allTokensFinished(after[currentPlayerIdx])
  THEN /\ gameOver' = TRUE
       /\ UNCHANGED currentPlayerIdx
       /\ dice' = d
  ELSE IF extraTurn(d)
       THEN /\ UNCHANGED <<gameOver, currentPlayerIdx>>
            /\ dice' = d
       ELSE /\ UNCHANGED gameOver
            /\ currentPlayerIdx' = nextPlayerIdx(currentPlayerIdx, numPlayers)
            /\ dice' = nextTurnDice(d)

Init ==
  /\ started = FALSE
  /\ numPlayers = 0
  /\ tokens = createGame(0)
  /\ currentPlayerIdx = 0
  /\ dice = NoDice
  /\ awaitingMove = FALSE
  /\ gameOver = FALSE
  /\ moves = 0
  /\ last = NoLast

\* startGame(num), from a mode button
startGame(n) ==
  /\ started' = TRUE
  /\ numPlayers' = n
  /\ tokens' = createGame(n)
  /\ currentPlayerIdx' = 0
  /\ dice' = NoDice
  /\ awaitingMove' = FALSE
  /\ gameOver' = FALSE
  /\ moves' = 0
  /\ last' = [NoLast EXCEPT !.op = "start"]

\* restartBtn click
Restart ==
  /\ started
  /\ startGame(numPlayers)

\* rollBtn click, the random value being d, in a match of fewer than maxMoves moves
rollBtnClick(d, maxMoves) ==
  /\ started /\ ~gameOver
  /\ ~awaitingMove
  /\ moves < maxMoves
  /\ UNCHANGED <<started, numPlayers>>
  /\ LET mvs == movables(tokens, currentPlayerIdx, d) IN
     IF mvs = {}
     THEN \* nextTurn()
          /\ currentPlayerIdx' = nextPlayerIdx(currentPlayerIdx, numPlayers)
          /\ dice' = nextTurnDice(d)
          /\ UNCHANGED <<tokens, awaitingMove, gameOver, moves>>
          /\ last' = [NoLast EXCEPT !.op = "skip"]
     ELSE IF autoMove(mvs)
     THEN LET t == firstOf(mvs)
              after == applyMove(tokens, currentPlayerIdx, t, d)
          IN /\ tokens' = after
             /\ UNCHANGED awaitingMove
             /\ postMoveAdvance(after, d)
             /\ moves' = moves + 1
             /\ last' = [op |-> "auto", player |-> currentPlayerIdx, dice |-> d,
                         token |-> t,
                         from |-> tokens[currentPlayerIdx][t].position,
                         captured |-> capturedCount(tokens, after)]
     ELSE /\ awaitingMove' = TRUE
          /\ dice' = d
          /\ UNCHANGED <<tokens, currentPlayerIdx, gameOver, moves>>
          /\ last' = [NoLast EXCEPT !.op = "await"]

RollDice(d) == rollBtnClick(d, MaxMoves)

RollDeep(d) == rollBtnClick(d, MaxDeepMoves)

\* the spots a click is tried on: every token on the board, and of the tokens
\* waiting in the yard (which are interchangeable) the first one
clickSpots(toks, playerId) ==
  {tid \in TokenIds :
     toks[playerId][tid].position = AtBase =>
       \A u \in TokenIds : toks[playerId][u].position = AtBase => tid <= u}

\* boardCanvas click on the spot where token tid of the current player is drawn,
\* while a move is awaited
ClickToken(tid) ==
  /\ started /\ awaitingMove
  /\ tid \in clickSpots(tokens, currentPlayerIdx)
  /\ LET t == clickedToken(tokens, currentPlayerIdx, tid)
         after == applyMove(tokens, currentPlayerIdx, t, dice)
     IN IF selectable(tokens, currentPlayerIdx, t, dice)
        THEN /\ tokens' = after
             /\ awaitingMove' = FALSE
             /\ postMoveAdvance(after, dice)
             /\ moves' = moves + 1
             /\ last' = [op |-> "click", player |-> currentPlayerIdx, dice |-> dice,
                         token |-> t,
                         from |-> tokens[currentPlayerIdx][t].position,
                         captured |-> capturedCount(tokens, after)]
        ELSE /\ UNCHANGED <<tokens, currentPlayerIdx, dice, awaitingMove, gameOver, moves>>
             /\ last' = [NoLast EXCEPT !.op = "clickRejected", !.token = t]
  /\ UNCHANGED <<started, numPlayers>>

\* boardCanvas click that returns at line 445 (no match, or no move awaited) or
\* hits no token of the current player
ClickIgnored ==
  /\ UNCHANGED <<started, numPlayers, tokens, currentPlayerIdx, dice, awaitingMove,
                 gameOver, moves>>
  /\ last' = [NoLast EXCEPT !.op = "clickIgnored"]

\* rollBtn click that returns at lines 420-421
RollRejected ==
  /\ ~started \/ gameOver \/ awaitingMove
  /\ UNCHANGED <<started, numPlayers, tokens, currentPlayerIdx, dice, awaitingMove,
                 gameOver, moves>>
  /\ last' = [NoLast EXCEPT !.op = "rollRejected"]

Next ==
  \/ \E n \in PlayerCounts : startGame(n)
  \/ Restart
  \/ \E d \in Dice : RollDice(d)
  \/ \E tid \in TokenIds : ClickToken(tid)
  \/ ClickIgnored
  \/ RollRejected

Spec == Init /\ [][Next]_vars

\* the same program, explored deeper on fewer faces of the dice
NextDeep ==
  \/ \E n \in PlayerCounts : startGame(n)
  \/ Restart
  \/ \E d \in DeepFaces : RollDeep(d)
  \/ \E tid \in TokenIds : ClickToken(tid)

SpecDeep == Init /\ [][NextDeep]_vars

\* createGame called with counts it does not check
AnyCounts == 1..4

\* the same program, a match being created for any count of AnyCounts
NextAnyCount ==
  \/ \E n \in AnyCounts : startGame(n)
  \/ Restart
  \/ \E d \in Dice : RollDice(d)
  \/ \E tid \in TokenIds : ClickToken(tid)
  \/ ClickIgnored
  \/ RollRejected

SpecAnyCount == Init /\ [][NextAnyCount]_vars

----------------------------------------------------------------------------
(* Claims *)

\* C1: a token of the current player in home lane cell h (0..4) is legal for a roll
\* d iff h + d <= 5; with h + d = 5 the move finishes it, with h + d < 5 the move
\* puts it on home lane cell h + d.
C1_HomeLaneExactFinish ==
  \A t \in TokenIds : \A d \in Dice :
    (started /\ IsInHomeLane(currentPlayerIdx, tokens[currentPlayerIdx][t])) =>
      LET tok == tokens[currentPlayerIdx][t]
          h == homeIdxOf(currentPlayerIdx, tok.position)
          mv == movedToken(currentPlayerIdx, tok, d)
      IN /\ canTokenMove(currentPlayerIdx, tok, d) <=> (h + d <= 5)
         /\ (h + d = 5) => mv.finished
         /\ (h + d < 5) =>
              (IsInHomeLane(currentPlayerIdx, mv)
               /\ homeIdxOf(currentPlayerIdx, mv.position) = h + d)

\* C2: a token on the ring at index r, k steps before its player's home entry:
\* a roll d <= k keeps it on the ring at (r + d) mod 52; a roll d > k, with
\* over = d - k - 1, puts it on home lane cell over when over <= 4, finishes it
\* when over = 5 and is illegal when over > 5.
C2_OnTrackTransition ==
  \A p \in DOMAIN tokens : \A t \in TokenIds : \A d \in Dice :
    IsOnTrack(p, tokens[p][t]) =>
      LET tok == tokens[p][t]
          r == ringIndexOf(p, tok.position)
          k == (entryIdx[p] - r + ringLen) % ringLen
          over == d - k - 1
          mv == movedToken(p, tok, d)
      IN /\ (d <= k) =>
              (canTokenMove(p, tok, d) /\ IsOnTrack(p, mv)
               /\ ringIndexOf(p, mv.position) = (r + d) % ringLen)
         /\ (d > k /\ over <= 4) =>
              (canTokenMove(p, tok, d) /\ IsInHomeLane(p, mv)
               /\ homeIdxOf(p, mv.position) = over)
         /\ (d > k /\ over = 5) => (canTokenMove(p, tok, d) /\ mv.finished)
         /\ (d > k /\ over > 5) => ~canTokenMove(p, tok, d)

\* C3: a move sends a token back to base only if the token belongs to another
\* player than the mover and is on the ring at the ring index the mover landed on.
C3_CaptureOnlyAtLandingIndex ==
  [][last'.op \in MoveOps =>
       \A p \in DOMAIN tokens : \A t \in TokenIds :
         (tokens[p][t].position # AtBase /\ tokens'[p][t].position = AtBase) =>
           LET mv == tokens'[currentPlayerIdx][last'.token]
           IN /\ p # currentPlayerIdx
              /\ IsOnTrack(p, tokens[p][t])
              /\ IsOnTrack(currentPlayerIdx, mv)
              /\ ringIndexOf(p, tokens[p][t].position)
                   = ringIndexOf(currentPlayerIdx, mv.position)]_vars

\* C4: a move that lands the mover on a safe ring cell sends no token back to
\* base; the entry cell of every player slot is a safe cell.
C4_NoCaptureOnEntryCell ==
  [][(/\ last'.op \in MoveOps
      /\ IsOnTrack(currentPlayerIdx, tokens'[currentPlayerIdx][last'.token])
      /\ ringIndexOf(currentPlayerIdx, tokens'[currentPlayerIdx][last'.token].position)
           \in {startIdx[q] : q \in 0..3})
     => \A p \in DOMAIN tokens : \A t \in TokenIds :
          tokens[p][t].position # AtBase => tokens'[p][t].position # AtBase]_vars

\* C5: a token walks 51 steps on the ring after entering before it turns into its
\* home lane: at every path position up to 51 it is still on the ring.
C5_RingLapBeforeHomeLane ==
  \A p \in DOMAIN tokens : \A t \in TokenIds :
    (tokens[p][t].position >= 0 /\ tokens[p][t].position <= ringLen - 1)
      => IsOnTrack(p, tokens[p][t])

C7_CaptureAllOrNothing ==
  [][last'.op \in MoveOps =>
       LET mv == tokens'[currentPlayerIdx][last'.token]
           cell == getBoardCoordForPosition(currentPlayerIdx, mv.position)
       IN /\ IsOnTrack(currentPlayerIdx, mv) =>
               \A p \in DOMAIN tokens : \A t \in TokenIds :
                 (p # currentPlayerIdx /\ IsOnTile(p, tokens[p][t], cell))
                   => IsAtBase(tokens'[p][t])
          /\ \A t \in TokenIds :
               t # last'.token => tokens'[currentPlayerIdx][t] = tokens[currentPlayerIdx][t]]_vars

\* one move has sent two or more opposing tokens back to base
C7_Witness == last.op \in MoveOps /\ last.captured >= 2

\* C8: a token at base is legal for a roll d iff d = 6, and the move puts it on the
\* ring at path position 0, the entry cell startIdx of its player, whatever the roll.
C8_BaseExit ==
  /\ \A p \in DOMAIN tokens : \A t \in TokenIds : \A d \in Dice :
       IsAtBase(tokens[p][t]) =>
         /\ canTokenMove(p, tokens[p][t], d) <=> (d = 6)
         /\ LET mv == movedToken(p, tokens[p][t], d)
            IN /\ mv.position = 0 /\ IsOnTrack(p, mv)
               /\ ringIndexOf(p, mv.position) = startIdx[p]
  /\ (last.op \in MoveOps /\ last.from = AtBase) =>
       /\ last.dice = 6
       /\ tokens[last.player][last.token].position = 0
       /\ getBoardCoordForPosition(last.player, tokens[last.player][last.token].position)
            = ring(startIdx[last.player])

\* a token has just left the base
C8_Witness ==
  /\ last.op \in MoveOps /\ last.from = AtBase
  /\ tokens[last.player][last.token].position = 0

\* C9: a roll for which the current player has no legal token passes the turn to
\* the next player at once: currentPlayerIdx advances by one modulo numPlayers,
\* the dice is cleared, no move is awaited and no token changes.
C9_TurnSkip ==
  [][\A d \in Dice :
       (RollDice(d) /\ movables(tokens, currentPlayerIdx, d) = {}) =>
         /\ currentPlayerIdx' = (currentPlayerIdx + 1) % numPlayers
         /\ currentPlayerIdx' \in 0..(numPlayers - 1)
         /\ dice' = NoDice
         /\ ~awaitingMove' /\ ~gameOver'
         /\ tokens' = tokens
         /\ last'.op = "skip"]_vars

\* a roll has been skipped by a player who has a token on the board
C9_Witness ==
  /\ last.op = "skip" /\ dice = NoDice /\ ~awaitingMove
  /\ \E t \in TokenIds :
       tokens[(currentPlayerIdx + numPlayers - 1) % numPlayers][t].position >= 0

matchState == <<started, numPlayers, tokens, currentPlayerIdx, dice, awaitingMove,
                gameOver>>

RollOps == {"skip", "await", "auto", "rollRejected"}

ClickOps == {"click", "clickRejected", "clickIgnored"}

\* C11, as claimed: whenever a roll is awaited (no move pending, game not over),
\* the dice is cleared.
C11_DiceClearedWhenAwaitingRoll ==
  (started /\ ~awaitingMove /\ ~gameOver) => dice = NoDice

\* C11, amended: the dice is cleared by a post-move step that passes the turn and
\* by a turn skip, and kept by the extra turn after a 6: whenever a roll is
\* awaited the dice is cleared or 6, and right after a move it is 6 iff the move
\* was made with a 6.
C11_DiceClearedUnlessExtraTurn ==
  /\ (started /\ ~awaitingMove /\ ~gameOver) => dice \in {NoDice, 6}
  /\ (last.op \in MoveOps /\ ~gameOver) =>
       dice = (IF last.dice = 6 THEN 6 ELSE NoDice)
  /\ last.op = "skip" => dice = NoDice

\* a roll is awaited after a move made with a 6, and the dice still shows 6
C11_Witness ==
  /\ last.op \in MoveOps /\ last.dice = 6
  /\ started /\ ~awaitingMove /\ ~gameOver /\ dice = 6

\* C12: after a move made with a roll other than 6 that does not end the game the
\* next player (modulo numPlayers) is current and a roll is awaited;
\* currentPlayerIdx is always in 0..numPlayers-1 and, within a match, changes
\* only by such a move or by a turn skip.
C12_TurnAdvancement ==
  [][/\ (last'.op \in MoveOps /\ last'.dice # 6 /\ ~gameOver') =>
          /\ currentPlayerIdx' = (currentPlayerIdx + 1) % numPlayers
          /\ ~awaitingMove'
     /\ started' => currentPlayerIdx' \in 0..(numPlayers' - 1)
     /\ (currentPlayerIdx' # currentPlayerIdx /\ last'.op # "start") =>
          \/ last'.op \in MoveOps /\ last'.dice # 6
          \/ last'.op = "skip"]_vars

\* the last player has moved with a roll other than 6 and the first player is next
C12_Witness ==
  /\ last.op \in MoveOps /\ last.dice # 6 /\ ~gameOver /\ ~awaitingMove
  /\ last.player = numPlayers - 1 /\ currentPlayerIdx = 0

\* C13: a roll with exactly one legal token moves that token at once and never
\* awaits a move; a roll with two or more legal tokens awaits a move and moves
\* nothing; an accepted click moves exactly one token of the current player, one
\* that is legal for the dice.
C13_RollDispatch ==
  [][/\ \A d \in Dice :
          RollDice(d) =>
            LET mvs == movables(tokens, currentPlayerIdx, d)
            IN /\ Cardinality(mvs) = 1 =>
                    /\ ~awaitingMove'
                    /\ last'.op = "auto" /\ last'.token \in mvs
                    /\ tokens'[currentPlayerIdx][last'.token].position
                         = newPosition(tokens[currentPlayerIdx][last'.token].position, d)
                    /\ \A u \in TokenIds \ mvs :
                         tokens'[currentPlayerIdx][u] = tokens[currentPlayerIdx][u]
               /\ Cardinality(mvs) >= 2 =>
                    /\ awaitingMove' /\ dice' = d
                    /\ tokens' = tokens /\ currentPlayerIdx' = currentPlayerIdx
     /\ last'.op = "click" =>
          /\ awaitingMove /\ ~awaitingMove'
          /\ last'.token \in movables(tokens, currentPlayerIdx, dice)
          /\ tokens'[currentPlayerIdx][last'.token].position
               = newPosition(tokens[currentPlayerIdx][last'.token].position, dice)
          /\ \A u \in TokenIds \ {last'.token} :
               tokens'[currentPlayerIdx][u] = tokens[currentPlayerIdx][u]]_vars

\* a token that entered by a click has been moved by a roll with no other choice
C13_Witness == last.op = "auto" /\ last.from >= 0 /\ ~awaitingMove

\* C14: a roll while a move is awaited, a click while no move is awaited and a
\* click, while a move is awaited, on a token that is not legal for the dice leave
\* the match state unchanged.
C14_RejectedIntentsAreNoOps ==
  [][/\ (last'.op \in RollOps /\ awaitingMove) => UNCHANGED matchState
     /\ (last'.op \in ClickOps /\ ~awaitingMove) => UNCHANGED matchState
     /\ (/\ last'.op \in {"click", "clickRejected"} /\ awaitingMove
         /\ last'.token \notin movables(tokens, currentPlayerIdx, dice))
          => UNCHANGED matchState]_vars

\* while a move is awaited, a click on a token that cannot move has been rejected
C14_Witness ==
  /\ last.op = "clickRejected" /\ awaitingMove
  /\ last.token \notin movables(tokens, currentPlayerIdx, dice)

\* C16: a match exists only for 2, 3 or 4 players; a new match has numPlayers
\* players of 4 tokens each, all at base, player 0 to roll, the dice cleared, no
\* move awaited and no winner.
C16_OnlyTwoToFourPlayers ==
  /\ started => numPlayers \in {2, 3, 4}
  /\ last.op = "start" =>
       /\ DOMAIN tokens = 0..(numPlayers - 1)
       /\ \A p \in DOMAIN tokens :
            DOMAIN tokens[p] = 0..3 /\ \A t \in 0..3 : IsAtBase(tokens[p][t])
       /\ currentPlayerIdx = 0 /\ dice = NoDice /\ ~awaitingMove /\ ~gameOver

RECURSIVE canFinish(_, _)
\* some sequence of rolls takes the token to the finish
canFinish(playerId, token) ==
  \/ token.finished
  \/ \E d \in Dice : /\ canTokenMove(playerId, token, d)
                     /\ canFinish(playerId, movedToken(playerId, token, d))

\* C18: a match can end: some player can bring all four tokens to the finish by
\* some rolls.
C18_MatchCanEnd ==
  started => \E p \in DOMAIN tokens : \A t \in TokenIds : canFinish(p, tokens[p][t])

\* C19: whenever a move is awaited the game is not over, the dice is in 1..6, at
\* least two tokens of the current player are legal and a click on one of them is
\* accepted; while a move is awaited only an accepted click or a new match changes
\* the match state.
C19_NoDeadAwaitingMove ==
  [][/\ awaitingMove' =>
          /\ started' /\ ~gameOver' /\ dice' \in Dice
          /\ Cardinality(movables(tokens', currentPlayerIdx', dice')) >= 2
          /\ \E tid \in clickSpots(tokens', currentPlayerIdx') :
               clickedToken(tokens', currentPlayerIdx', tid)
                 \in movables(tokens', currentPlayerIdx', dice')
     /\ awaitingMove =>
          (UNCHANGED matchState \/ last'.op \in {"click", "start"})]_vars

\* a roll has been tried while a move is awaited
C19_Witness == awaitingMove /\ last.op = "rollRejected" /\ dice \in Dice

\* C20: every token on the ring is within its own player's stretch of the ring,
\* from the player's start index to its home-entry index; the stretches of the
\* players are disjoint, so no two tokens of different players are on the ring at
\* the same ring index.
C20_NoSharedRingIndex ==
  /\ \A p \in DOMAIN tokens : \A t \in TokenIds :
       IsOnTrack(p, tokens[p][t]) =>
         /\ startIdx[p] <= ringIndexOf(p, tokens[p][t].position)
         /\ ringIndexOf(p, tokens[p][t].position) <= entryIdx[p]
  /\ \A p, q \in DOMAIN tokens : \A t, u \in TokenIds :
       (p # q /\ IsOnTrack(p, tokens[p][t]) /\ IsOnTrack(q, tokens[q][u])) =>
         ringIndexOf(p, tokens[p][t].position) # ringIndexOf(q, tokens[q][u].position)

\* tokens of two players are on the ring, one of them past its start tile
C20_Witness ==
  \E p, q \in DOMAIN tokens : \E t, u \in TokenIds :
    /\ p # q /\ IsOnTrack(p, tokens[p][t]) /\ IsOnTrack(q, tokens[q][u])
    /\ tokens[p][t].position > 0

====
